---- MODULE Spec2Model ----
(***************************************************************************)
(* Model of packages/driver/src/cypress/stack_utils.js: the stack-trace    *)
(* splitting, parsing, source mapping, reconstruction and normalisation    *)
(* helpers of the Cypress driver.                                          *)
(*                                                                         *)
(* A JavaScript string is a sequence of one-character strings.  A          *)
(* JavaScript value that may or may not be a string is a record            *)
(* [t |-> <type>, s |-> <characters>].                                     *)
(***************************************************************************)
EXTENDS Integers, Sequences, FiniteSets, TLC

VARIABLES
  err,             \* the error object: name, message, stack, codeFrame, parsedStack
  pre,             \* the error object as it was before the last operation
  op,              \* the last operation
  arg,             \* its argument besides the error object
  ret,             \* what it returned, or TypeError when it threw
  contentsCalls,   \* the getSourceContents calls it made
  sourceMaps,      \* the resolver: generated file -> original position
  sourceContents   \* the resolver: generated file -> source text

vars == <<err, pre, op, arg, ret, contentsCalls, sourceMaps, sourceContents>>

\* ------------------------------------------------------------------ bounds
\* largest number of lines of a stack string drawn as an input
MaxLines == 2

\* ------------------------------------------------------------ JS values
NL == "\n"

\* F applied to the value of v, which is computed once
Let(v, F(_)) == CHOOSE r \in {F(x) : x \in {v}} : TRUE

Str(s) == [t |-> "string", s |-> s]
Undefined == [t |-> "undefined", s |-> <<>>]
Num42 == [t |-> "number", s |-> <<>>]
TypeError == [t |-> "throw", s |-> <<>>]

IsString(v) == v.t = "string"
\* ToBoolean of a value: undefined and '' are falsy, a number 42 and a
\* non-empty string are truthy
Truthy(v) == IF v.t = "string" THEN v.s # <<>> ELSE v.t = "number"

IsSpace(c) == c \in {" ", "\t", NL}
IsDigit(c) == c \in {"0", "1", "2", "3", "4", "5", "6", "7", "8", "9"}

\* ------------------------------------------------------- String.prototype
\* s.indexOf(t): the 0-based index of the first occurrence of t, or -1
Least(S) == CHOOSE i \in S : \A j \in S : i <= j
Greatest(S) == CHOOSE i \in S : \A j \in S : j <= i

indexOf(s, t) ==
  Let({i \in 0..(Len(s) - Len(t)) : SubSeq(s, i + 1, i + Len(t)) = t},
      LAMBDA hits : IF hits = {} THEN -1 ELSE Least(hits))

includes(s, t) == indexOf(s, t) > -1

\* s.slice(0, e): a negative e counts from the end of s
slice0(s, e) ==
  LET end == IF e < 0 THEN (IF Len(s) + e < 0 THEN 0 ELSE Len(s) + e)
             ELSE (IF e > Len(s) THEN Len(s) ELSE e)
  IN SubSeq(s, 1, end)

\* s.split('\n')
RECURSIVE split(_)
split(s) ==
  Let(indexOf(s, <<NL>>), LAMBDA i :
    IF i = -1 THEN <<s>>
    ELSE <<SubSeq(s, 1, i)>>
         \o Let(SubSeq(s, i + 2, Len(s)), LAMBDA rest : split(rest)))

\* lines.join(sep)
RECURSIVE join(_, _)
join(lines, sep) ==
  IF lines = <<>> THEN <<>>
  ELSE IF Len(lines) = 1 THEN lines[1]
  ELSE lines[1] \o sep \o Let(Tail(lines), LAMBDA rest : join(rest, sep))

\* the decimal digits of a natural number, as a template literal prints it
RECURSIVE toDigits(_)
toDigits(n) ==
  LET d == <<"0", "1", "2", "3", "4", "5", "6", "7", "8", "9">>
  IN IF n < 10 THEN <<d[n + 1]>> ELSE toDigits(n \div 10) \o <<d[(n % 10) + 1]>>

\* Number(digits)
RECURSIVE toNumber(_)
digitValue(c) == CHOOSE k \in 0..9 : toDigits(k) = <<c>>

toNumber(ds) ==
  IF ds = <<>> THEN 0
  ELSE Let(SubSeq(ds, 1, Len(ds) - 1), LAMBDA front : toNumber(front)) * 10
       + digitValue(ds[Len(ds)])

AllDigits(s, a, b) == a <= b /\ \A k \in a..b : IsDigit(s[k])

\* --------------------------------------------------------------- regexes
\* whitespaceRegex = /^(\s*)\S*/ : the first group, the leading whitespace
leadingWhitespace(line) ==
  SubSeq(line, 1, CHOOSE k \in 0..Len(line) :
                    /\ \A j \in 1..k : IsSpace(line[j])
                    /\ (k < Len(line) => ~IsSpace(line[k + 1])))

\* stackLineRegex = /^\s*(at )?.*@?\(?.*\:\d+\:\d+\)?$/ : everything before
\* the final ":digits:digits" is matched by \s* and the two .* (which stop at
\* a line terminator), so the line matches iff it ends with
\* ":digits:digits", optionally followed by ")"
stackLineRegexTest(line) ==
  \E i \in 1..Len(line) : \E j \in (i + 2)..Len(line) :
    \E last \in {Len(line), Len(line) - 1} :
      /\ line[i] = ":"
      /\ line[j] = ":"
      /\ AllDigits(line, i + 1, j - 1)
      /\ AllDigits(line, j + 1, last)
      /\ (last = Len(line) - 1 => line[Len(line)] = ")")
      /\ \A p \in 1..(i - 1) :
           line[p] = NL => \A q \in 1..p : IsSpace(line[q])

\* -------------------------------------------------------------- splitStack
\* the reducer without the messageEnded test: a later line that does not
\* match goes back to the messages
splitStepNotSticky(memo, line) ==
  IF stackLineRegexTest(line)
  THEN [memo EXCEPT !.messageEnded = TRUE, !.frames = Append(@, line)]
  ELSE [memo EXCEPT !.messages = Append(@, line)]

\* the reducer of splitStack: memo is [messages, frames, messageEnded]
splitStep(memo, line) ==
  IF memo.messageEnded \/ stackLineRegexTest(line)
  THEN [memo EXCEPT !.messageEnded = TRUE, !.frames = Append(@, line)]
  ELSE [memo EXCEPT !.messages = Append(@, line)]

RECURSIVE reduceSplit(_, _)
reduceSplit(memo, lines) ==
  IF lines = <<>> THEN memo
  ELSE Let(<<splitStep(memo, lines[1]), Tail(lines)>>,
           LAMBDA next : reduceSplit(next[1], next[2]))

\* splitStack(stack) for a string stack: the tuple [messages, frames]
splitStack(stack) ==
  Let(split(stack), LAMBDA lines :
    Let(reduceSplit([messages |-> <<>>, frames |-> <<>>,
                     messageEnded |-> FALSE], lines),
        LAMBDA memo : <<memo.messages, memo.frames>>))

\* ------------------------------------------------------ error-stack-parser
\* s.replace(/^\s+/, '')
stripLeadingWs(s) == SubSeq(s, Len(leadingWhitespace(s)) + 1, Len(s))

\* s.split(/\s+/)
RECURSIVE splitWs(_)
splitWs(s) ==
  Let({i \in 1..Len(s) : IsSpace(s[i])}, LAMBDA ws :
    IF ws = {} THEN <<s>>
    ELSE Let(Least(ws), LAMBDA i :
           <<SubSeq(s, 1, i - 1)>>
           \o Let(SubSeq(s, i, Len(s)), LAMBDA rest :
                 Let(stripLeadingWs(rest), LAMBDA next : splitWs(next)))))

\* s.replace(/[()]/g, '')
stripParens(s) == SelectSeq(s, LAMBDA c : c \notin {"(", ")"})

\* the tail (?::(\d+))?(?::(\d+))?$ of extractLocation's pattern: the two
\* numbers it captures, -1 for a group that did not take part
locationTail(rest) ==
  IF rest = <<>> THEN <<-1, -1>>
  ELSE IF rest[1] = ":" /\ AllDigits(rest, 2, Len(rest))
  THEN <<toNumber(SubSeq(rest, 2, Len(rest))), -1>>
  ELSE Let({j \in 3..Len(rest) :
              /\ rest[1] = ":" /\ rest[j] = ":"
              /\ AllDigits(rest, 2, j - 1)
              /\ AllDigits(rest, j + 1, Len(rest))},
           LAMBDA js :
             IF js = {} THEN <<-2, -2>>
             ELSE Let(Least(js), LAMBDA j :
                    <<toNumber(SubSeq(rest, 2, j - 1)),
                      toNumber(SubSeq(rest, j + 1, Len(rest)))>>))

\* extractLocation(urlLike): /(.+?)(?::(\d+))?(?::(\d+))?$/ on urlLike
\* without its parentheses; the lazy first group is the shortest non-empty
\* prefix after which the tail matches
extractLocation(urlLike) ==
  IF indexOf(urlLike, <<":">>) = -1
  THEN [file |-> urlLike, line |-> -1, column |-> -1]
  ELSE Let(stripParens(urlLike), LAMBDA u :
         Let(Least({n \in 1..Len(u) :
                      Let(SubSeq(u, n + 1, Len(u)),
                          LAMBDA rest : locationTail(rest)[1] # -2)}),
             LAMBDA n :
               Let(locationTail(SubSeq(u, n + 1, Len(u))), LAMBDA t :
                 [file |-> SubSeq(u, 1, n), line |-> t[1], column |-> t[2]])))

\* CHROME_IE_STACK_REGEXP = /^\s*at .*(\S+:\d+|\(native\))/m on one line
chromeStackRegexTest(line) ==
  Let(stripLeadingWs(line), LAMBDA s :
    /\ Len(s) >= 3 /\ SubSeq(s, 1, 3) = <<"a", "t", " ">>
    /\ \/ \E k \in 4..(Len(s) - 2) :
            ~IsSpace(s[k]) /\ s[k + 1] = ":" /\ IsDigit(s[k + 2])
       \/ Let(SubSeq(s, 4, Len(s)), LAMBDA rest :
             includes(rest, <<"(", "n", "a", "t", "i", "v", "e", ")">>)))

\* parseV8OrIE on one line: the tokens after "at", the last one the location
parseV8OrIE(line) ==
  Let(Tail(Let(stripLeadingWs(line), LAMBDA s : splitWs(s))), LAMBDA tokens :
  Let(Let(tokens[Len(tokens)], LAMBDA last : extractLocation(last)), LAMBDA loc :
  Let(Let(SubSeq(tokens, 1, Len(tokens) - 1), LAMBDA front : join(front, <<" ">>)),
      LAMBDA fn :
     [functionName |-> IF fn = <<>> THEN Undefined ELSE Str(fn),
      fileName |-> IF loc.file \in {<<"e", "v", "a", "l">>,
                                    <<"<", "a", "n", "o", "n", "y", "m", "o", "u", "s", ">">>}
                   THEN Undefined ELSE Str(loc.file),
      lineNumber |-> loc.line,
      columnNumber |-> loc.column])))

\* parseFFOrSafari on one line that holds a ':' : the function name is what
\* precedes the first '@', the location what follows it
parseFFOrSafari(line) ==
  Let(indexOf(line, <<"@">>), LAMBDA at :
  Let(Let(SubSeq(line, at + 2, Len(line)), LAMBDA rest : extractLocation(rest)),
      LAMBDA loc :
     [functionName |-> IF at < 1 THEN Undefined ELSE Str(SubSeq(line, 1, at)),
      fileName |-> Str(loc.file),
      lineNumber |-> loc.line,
      columnNumber |-> loc.column]))

\* errorStackParser.parse({ stack: line })[0] for a line that matched
\* stackLineRegex
errorStackParserParse(line) ==
  IF chromeStackRegexTest(line) THEN parseV8OrIE(line) ELSE parseFFOrSafari(line)

\* ------------------------------------------------------------ parseLine
functionExtrasStrip(fn) ==
  LET n == Len(fn)
  IN IF n >= 3 /\ SubSeq(fn, n - 2, n) = <<"<", "/", "<">> THEN SubSeq(fn, 1, n - 3)
     ELSE IF n >= 2 /\ SubSeq(fn, n - 1, n) = <<"/", "<">> THEN SubSeq(fn, 1, n - 2)
     ELSE fn

UnknownName == <<"<", "u", "n", "k", "n", "o", "w", "n", ">">>

cleanFunctionName(functionName) ==
  IF ~IsString(functionName) THEN UnknownName
  ELSE functionExtrasStrip(functionName.s)

NoDetails == [ok |-> FALSE]

\* parseLine(line): the generated details, or NoDetails for a message line
parseLine(line) ==
  IF ~stackLineRegexTest(line) THEN NoDetails
  ELSE Let(errorStackParserParse(line), LAMBDA parsed :
         [ok |-> TRUE,
          line |-> parsed.lineNumber,
          column |-> parsed.columnNumber,
          file |-> parsed.fileName,
          function |-> cleanFunctionName(parsed.functionName)])

getWhitespace(line) == IF line = <<>> THEN <<>> ELSE leadingWhitespace(line)

\* ------------------------------------------------------- source_map_utils
NoPosition == [ok |-> FALSE]

\* $sourceMapUtils.getSourcePosition(file, position): the original position
\* the source map of the generated file holds, or nothing
getSourcePosition(file, position) ==
  IF IsString(file) /\ file.s \in DOMAIN sourceMaps
  THEN sourceMaps[file.s] ELSE NoPosition

\* $sourceMapUtils.getSourceContents(fileUrl, relativeFile): the text of the
\* source file, or undefined
getSourceContents(fileUrl, relativeFile) ==
  IF IsString(fileUrl) /\ fileUrl.s \in DOMAIN sourceContents
  THEN sourceContents[fileUrl.s] ELSE Undefined

\* --------------------------------------------------------- getSourceDetails
ContextEval == <<"C", "o", "n", "t", "e", "x", "t", ".", "e", "v", "a", "l">>
TestRun == <<"T", "e", "s", "t", ".", "r", "u", "n">>

\* the mapper taking the line from the generated details
getSourceDetailsGeneratedLine(generatedDetails) ==
  Let(getSourcePosition(generatedDetails.file, generatedDetails),
      LAMBDA sourceDetails :
        IF ~sourceDetails.ok THEN generatedDetails
        ELSE [ok |-> TRUE,
              line |-> generatedDetails.line,
              column |-> sourceDetails.column,
              file |-> Str(sourceDetails.file),
              function |-> IF generatedDetails.function = ContextEval
                           THEN TestRun ELSE generatedDetails.function])

getSourceDetails(generatedDetails) ==
  Let(getSourcePosition(generatedDetails.file, generatedDetails),
      LAMBDA sourceDetails :
        IF ~sourceDetails.ok THEN generatedDetails
        ELSE [ok |-> TRUE,
              line |-> sourceDetails.line,
              column |-> sourceDetails.column,
              file |-> Str(sourceDetails.file),
              function |-> IF generatedDetails.function = ContextEval
                           THEN TestRun ELSE generatedDetails.function])

\* path.join(projectRoot, file): a TypeError for an argument that is not a
\* string, else the two joined by '/' with repeated separators collapsed
RECURSIVE collapseSlashes(_)
collapseSlashes(s) ==
  IF Len(s) < 2 THEN s
  ELSE Let(Let(Tail(s), LAMBDA rest : collapseSlashes(rest)), LAMBDA done :
         IF s[1] = "/" /\ s[2] = "/" THEN done ELSE <<s[1]>> \o done)

pathJoin(projectRoot, file) ==
  IF ~IsString(projectRoot) \/ ~IsString(file) THEN TypeError
  ELSE Str(collapseSlashes(projectRoot.s \o <<"/">> \o file.s))

\* -------------------------------------------------- getSourceDetailsForLine
\* a parsed entry; message is undefined in a frame entry, and the frame
\* fields are undefined (-1 for the numbers) in a message entry
MessageEntry(line, whitespace) ==
  [message |-> Str(line), whitespace |-> whitespace,
   function |-> <<>>, fileUrl |-> Undefined, relativeFile |-> Undefined,
   absoluteFile |-> Undefined, line |-> -1, column |-> -1]

getSourceDetailsForLine(projectRoot, line) ==
  Let(getWhitespace(line), LAMBDA whitespace :
  Let(parseLine(line), LAMBDA generatedDetails :
    IF ~generatedDetails.ok THEN MessageEntry(line, whitespace)
    ELSE Let(getSourceDetails(generatedDetails), LAMBDA sourceDetails :
         Let(pathJoin(projectRoot, sourceDetails.file), LAMBDA absoluteFile :
           IF absoluteFile = TypeError THEN TypeError
           ELSE [message |-> Undefined, whitespace |-> whitespace,
                 function |-> sourceDetails.function,
                 fileUrl |-> generatedDetails.file,
                 relativeFile |-> sourceDetails.file,
                 absoluteFile |-> absoluteFile,
                 line |-> sourceDetails.line,
                 column |-> IF sourceDetails.column < 0 THEN -1
                            ELSE sourceDetails.column + 1]))))

\* ---------------------------------------------------------- reconstructStack
\* `${n}` of a number; -1 stands for a value that is not a number
numberText(n) == IF n < 0 THEN <<"N", "a", "N">> ELSE toDigits(n)

reconstructLine(parsedLine) ==
  IF parsedLine.message # Undefined
  THEN parsedLine.whitespace \o parsedLine.message.s
  ELSE parsedLine.whitespace \o <<"a", "t", " ">> \o parsedLine.function
       \o <<" ", "(">>
       \o (IF Truthy(parsedLine.relativeFile) THEN parsedLine.relativeFile.s
           ELSE UnknownName)
       \o <<":">> \o numberText(parsedLine.line)
       \o <<":">> \o numberText(parsedLine.column) \o <<")">>

reconstructStack(parsedStack) ==
  Let([i \in 1..Len(parsedStack) |-> reconstructLine(parsedStack[i])],
      LAMBDA lines : join(lines, <<NL>>))

\* ------------------------------------------------------------ getSourceStack
EmptyObject == [t |-> "object"]

getSourceStack(stack, projectRoot) ==
  IF ~IsString(stack) THEN EmptyObject
  ELSE Let(split(stack.s), LAMBDA lines :
       Let([i \in 1..Len(lines) |->
              getSourceDetailsForLine(projectRoot, lines[i])],
           LAMBDA parsed :
             IF \E i \in 1..Len(parsed) : parsed[i] = TypeError THEN TypeError
             ELSE [t |-> "sourceStack", parsed |-> parsed,
                   sourceMapped |-> reconstructStack(parsed)]))

\* ------------------------------------------------------------ the error
\* Error.prototype.toString()
errToString(e) ==
  IF e.name = <<>> THEN e.message
  ELSE IF e.message = <<>> THEN e.name
  ELSE e.name \o <<":", " ">> \o e.message

SameError == [t |-> "err"]
Bool(b) == [t |-> "boolean", b |-> b]

\* ------------------------------------------------------------ normalizeStack
\* normalizeStack testing the stack's first line for the whole textual form
normalizeStackWholeForm(e) ==
  IF ~IsString(e.stack) /\ Truthy(e.stack) THEN TypeError
  ELSE Let(errToString(e), LAMBDA errString :
       Let(IF Truthy(e.stack) THEN e.stack.s ELSE <<>>, LAMBDA errStack :
       Let(slice0(errStack, indexOf(errStack, <<NL>>)), LAMBDA firstStackLine :
         IF ~includes(firstStackLine, errString)
         THEN [e EXCEPT !.stack = Str(errString \o <<NL>> \o errStack)]
         ELSE e)))

\* the error after normalizeStack(err), or TypeError when err.stack is a
\* truthy value without a slice method
normalizeStack(e) ==
  IF ~IsString(e.stack) /\ Truthy(e.stack) THEN TypeError
  ELSE Let(errToString(e), LAMBDA errString :
       Let(IF Truthy(e.stack) THEN e.stack.s ELSE <<>>, LAMBDA errStack :
       Let(slice0(errString, indexOf(errString, <<NL>>)), LAMBDA firstErrLine :
       Let(slice0(errStack, indexOf(errStack, <<NL>>)), LAMBDA firstStackLine :
       Let(includes(firstStackLine, firstErrLine), LAMBDA stackIncludesMsg :
         IF ~stackIncludesMsg
         THEN [e EXCEPT !.stack = Str(errString \o <<NL>> \o errStack)]
         ELSE e)))))

\* -------------------------------------------------------------- replaceStack
SpecFrameMarker ==
  <<"_", "_", "g", "e", "t", "S", "p", "e", "c", "F", "r", "a", "m", "e",
    "S", "t", "a", "c", "k">>

\* the filter keeping every line
relevantStackLinesAll(stackLines) == stackLines

\* _.reject(stackLines, (line) => line.indexOf('__getSpecFrameStack') > -1)
relevantStackLines(stackLines) ==
  SelectSeq(stackLines, LAMBDA line : ~(indexOf(line, SpecFrameMarker) > -1))

\* the error after replaceStack(err, newStack), or TypeError when newStack
\* is not a string
replaceStack(e, newStack) ==
  IF ~Truthy(e.stack) THEN e
  ELSE IF ~IsString(newStack) THEN TypeError
  ELSE Let(errToString(e), LAMBDA errString :
       Let(splitStack(newStack.s)[2], LAMBDA stackLines :
       Let(<<errString>> \o relevantStackLines(stackLines), LAMBDA lines :
         [e EXCEPT !.stack = Str(join(lines, <<NL>>))])))

\* ------------------------------------------------------------------ hasStack
\* hasStack looking at the message lines of the split
hasStackMessages(e) ==
  IF ~Truthy(e.stack) THEN Bool(FALSE)
  ELSE IF ~IsString(e.stack) THEN TypeError
  ELSE Bool(Len(splitStack(e.stack.s)[1]) # 0)

hasStack(e) ==
  IF ~Truthy(e.stack) THEN Bool(FALSE)
  ELSE IF ~IsString(e.stack) THEN TypeError
  ELSE Bool(Len(splitStack(e.stack.s)[2]) # 0)

\* ------------------------------------------------------------- isFromCypress
CypressScheme == <<"c", "y", "p", "r", "e", "s", "s", ":", "/", "/">>

\* firstStackLine && firstStackLine.indexOf('cypress://') > -1
isFromCypress(e) ==
  IF ~IsString(e.stack) THEN TypeError
  ELSE Let(splitStack(e.stack.s)[2], LAMBDA stackLines :
         IF stackLines = <<>> THEN Undefined
         ELSE IF stackLines[1] = <<>> THEN Str(<<>>)
         ELSE Bool(indexOf(stackLines[1], CypressScheme) > -1))

\* -------------------------------------------------------------- getCodeFrame
Max(a, b) == IF a > b THEN a ELSE b
Min(a, b) == IF a < b THEN a ELSE b

\* codeFrameColumns(sourceCode, { start: { line, column } }): the lines from
\* two above the location to three below it, each behind a gutter, the
\* located line marked; '' when the location lies below the last line
codeFrameColumns(sourceCode, line, column) ==
  Let(split(sourceCode), LAMBDA lines :
  Let(Max(line - 3, 0), LAMBDA start :
  Let(Min(Len(lines), line + 3), LAMBDA end :
  Let([i \in 1..Max(end - start, 0) |->
         (IF start + i = line THEN <<">">> ELSE <<" ">>)
         \o <<"|">> \o lines[start + i]],
      LAMBDA shown : join(shown, <<NL>>)))))

\* String.prototype.toLowerCase on the letters the file names use
toLowerCase(s) ==
  [i \in 1..Len(s) |-> IF s[i] = "J" THEN "j" ELSE IF s[i] = "S" THEN "s" ELSE s[i]]

\* path.extname(filePath): from the last '.' of the last path segment, ''
\* when there is none or the segment starts with it
extname(filePath) ==
  Let({i \in 1..Len(filePath) : filePath[i] = "/"}, LAMBDA slashes :
  Let(IF slashes = {} THEN 0 ELSE Greatest(slashes), LAMBDA base :
  Let({i \in (base + 2)..Len(filePath) : filePath[i] = "."}, LAMBDA dots :
    IF dots = {} THEN <<>>
    ELSE SubSeq(filePath, Greatest(dots), Len(filePath)))))

Null == [t |-> "null", s |-> <<>>]

getLanguageFromExtension(filePath) ==
  Let(Let(extname(filePath), LAMBDA ext : toLowerCase(ext)), LAMBDA ext :
  Let(IF ext = <<>> THEN <<>> ELSE Tail(ext), LAMBDA bare :
    IF bare = <<>> THEN Null ELSE Str(bare)))

getCodeFrameFromSource(sourceCode, details) ==
  IF ~Truthy(sourceCode) THEN Undefined
  ELSE Let(codeFrameColumns(sourceCode.s, details.line, details.column),
           LAMBDA frame :
             IF frame = <<>> THEN Undefined
             ELSE IF ~IsString(details.relativeFile) THEN TypeError
             ELSE [t |-> "codeFrame",
                   line |-> details.line,
                   column |-> details.column,
                   relativeFile |-> details.relativeFile,
                   absoluteFile |-> details.absoluteFile,
                   frame |-> frame,
                   language |-> getLanguageFromExtension(details.relativeFile.s)])

\* _.find(err.parsedStack, (line) => !!line.fileUrl): the index of the first
\* entry with a generated file, 0 when there is none
\* the search taking the last entry with a generated file
lastStackLineIndex(parsedStack) ==
  Let({i \in 1..Len(parsedStack) : Truthy(parsedStack[i].fileUrl)},
      LAMBDA found : IF found = {} THEN 0 ELSE Greatest(found))

firstStackLineIndex(parsedStack) ==
  Let({i \in 1..Len(parsedStack) : Truthy(parsedStack[i].fileUrl)},
      LAMBDA found : IF found = {} THEN 0 ELSE Least(found))

\* getCodeFrame(err): what it returns and the getSourceContents calls made
getCodeFrame(e) ==
  IF e.codeFrame # Undefined THEN [ret |-> e.codeFrame, calls |-> <<>>]
  ELSE Let(firstStackLineIndex(e.parsedStack), LAMBDA i :
         IF i = 0 THEN [ret |-> Undefined, calls |-> <<>>]
         ELSE Let(e.parsedStack[i], LAMBDA firstStackLine :
              Let(getSourceContents(firstStackLine.fileUrl,
                                    firstStackLine.relativeFile),
                  LAMBDA sourceCode :
                [ret |-> getCodeFrameFromSource(sourceCode, firstStackLine),
                 calls |-> <<firstStackLine.fileUrl>>])))

\* ------------------------------------------------------------------ inputs
\* 'E: ab', the textual form of the error named E with message ab
LineNameAb ==
  <<"E", ":", " ", "a", "b">>
\* 'E: ac', which holds 'E: a' and not 'E: ab'
LineNameAc ==
  <<"E", ":", " ", "a", "c">>
\* a frame line of the runner's own scheme
LineCypressFrame ==
  <<" ", "a", "t", " ", "f", " ", "(", "c", "y", "p", "r", "e", "s", "s",
    ":", "/", "/", "b", ":", "1", ":", "2", ")">>
\* a frame line
LineFrameG ==
  <<"a", "t", " ", "g", " ", "(", "b", ":", "1", ":", "2", ")">>
\* a frame line of the helper that captures the spec frame
LineMarkerFrame ==
  <<"a", "t", " ", "_", "_", "g", "e", "t", "S", "p", "e", "c", "F", "r",
    "a", "m", "e", "S", "t", "a", "c", "k", " ", "(", "b", ":", "1", ":",
    "2", ")">>
\* a message line with leading whitespace
LineMessage ==
  <<" ", " ", "m">>
\* a frame line with leading whitespace
LineFrameF ==
  <<" ", "a", "t", " ", "f", " ", "(", "b", ":", "1", ":", "2", ")">>
\* a frame line of the evaluation context
LineContextEval ==
  <<"a", "t", " ", "C", "o", "n", "t", "e", "x", "t", ".", "e", "v", "a",
    "l", " ", "(", "b", ":", "3", ":", "4", ")">>
\* a frame line of a function whose name only starts with Context.eval
LineContextEvalX ==
  <<"a", "t", " ", "C", "o", "n", "t", "e", "x", "t", ".", "e", "v", "a",
    "l", "X", " ", "(", "c", ":", "3", ":", "4", ")">>
\* a Firefox frame line with a wrapper suffix
LineFirefox ==
  <<"g", "/", "<", "@", "c", ":", "5", ":", "6">>
\* a frame line with no file: V8 prints <anonymous> for evaluated code
LineAnonymous ==
  <<"a", "t", " ", "f", " ", "(", "<", "a", "n", "o", "n", "y", "m", "o",
    "u", "s", ">", ":", "1", ":", "2", ")">>

\* the sequences of 1..n lines drawn from a pool
RECURSIVE LineSeqs(_, _)
LineSeqs(pool, n) ==
  IF n = 0 THEN {<<>>}
  ELSE LET shorter == LineSeqs(pool, n - 1)
       IN shorter \cup {Append(ls, l) : ls \in shorter, l \in pool}

Stacks(pool) == {join(ls, <<NL>>) : ls \in LineSeqs(pool, MaxLines) \ {<<>>}}

ErrLines == {LineNameAb, LineNameAc, LineCypressFrame}
NewLines == {<<"m">>, LineFrameG, LineMarkerFrame}
StackLines == {LineMessage, <<>>, LineFrameF, LineContextEval, LineContextEvalX,
               LineFirefox, LineAnonymous}

Names == {<<>>, <<"E">>}
Messages == {<<>>, <<"a", "b">>, <<"a", NL, "b">>}
ErrStacks == {Undefined, Num42, Str(<<>>)} \cup {Str(s) : s \in Stacks(ErrLines)}
NewStacks == {Str(s) : s \in Stacks(NewLines)}
StackInputs == {Undefined, Num42} \cup {Str(s) : s \in Stacks(StackLines)}

ProjectRoot == Str(<<"/", "p">>)

\* the resolvers: a source map for any of the generated files b and c, each
\* mapping every position of its file to spec.js 5:1
GenFiles == {<<"b">>, <<"c">>}
MappedPosition ==
  [ok |-> TRUE, file |-> <<"s", ".", "J", "S">>, line |-> 5, column |-> 1]
Resolvers == UNION {[D -> {MappedPosition}] : D \in SUBSET GenFiles}

\* the source texts the resolver may hold for a file: none, an empty text,
\* one line, three lines
Contents ==
  UNION {[D -> {Str(<<>>), Str(<<"x">>), Str(<<"x", NL, "y", NL, "z">>)}] :
           D \in SUBSET GenFiles}

NoFile == [f \in {} |-> NoPosition]

\* ------------------------------------------------------------ the machine
NewError(name, message, stack) ==
  [name |-> name, message |-> message, stack |-> stack,
   codeFrame |-> Undefined, parsedStack |-> <<>>]

\* an error as the runtime hands it over, and no resolver
Init ==
  /\ err \in {NewError(n, m, s) : n \in Names, m \in Messages, s \in ErrStacks}
  /\ pre = err
  /\ op = "init"
  /\ arg = Undefined
  /\ ret = Undefined
  /\ contentsCalls = <<>>
  /\ sourceMaps = NoFile
  /\ sourceContents = NoFile

\* an operation on err that threw leaves err as it was
Apply(name, a, result, r) ==
  /\ pre' = err
  /\ op' = name
  /\ arg' = a
  /\ err' = IF result = TypeError THEN err ELSE result
  /\ ret' = IF result = TypeError THEN TypeError ELSE r
  /\ contentsCalls' = <<>>
  /\ UNCHANGED <<sourceMaps, sourceContents>>

NormalizeStack ==
  \E result \in {normalizeStack(err)} :
    Apply("normalizeStack", Undefined, result, SameError)

ReplaceStack ==
  \E newStack \in NewStacks : \E result \in {replaceStack(err, newStack)} :
    Apply("replaceStack", newStack, result, SameError)

\* an operation that reads err and returns a value
Inspect(name, a, r) ==
  /\ pre' = err
  /\ op' = name
  /\ arg' = a
  /\ ret' = r
  /\ contentsCalls' = <<>>
  /\ UNCHANGED <<err, sourceMaps, sourceContents>>

HasStack ==
  \E r \in {hasStack(err)} : Inspect("hasStack", Undefined, r)

IsFromCypress ==
  \E r \in {isFromCypress(err)} : Inspect("isFromCypress", Undefined, r)

GetSourceStackOfError ==
  \E r \in {getSourceStack(err.stack, ProjectRoot)} :
    Inspect("getSourceStack", err.stack, r)

Next ==
  \/ NormalizeStack
  \/ ReplaceStack
  \/ HasStack
  \/ IsFromCypress
  \/ GetSourceStackOfError

Spec == Init /\ [][Next]_vars

\* ------------------------------------------- the pure functions on a stack
\* a stack and a resolver; the functions are then applied to that stack
InitStack ==
  /\ err = NewError(<<"E">>, <<>>, Undefined)
  /\ pre = err
  /\ op = "init"
  /\ arg \in StackInputs
  /\ ret = Undefined
  /\ contentsCalls = <<>>
  /\ sourceMaps \in Resolvers
  /\ sourceContents = NoFile

SplitStack ==
  /\ op = "init"
  /\ IsString(arg)
  /\ \E r \in {splitStack(arg.s)} : Inspect("splitStack", arg, r)

GetSourceStack ==
  /\ op = "init"
  /\ \E r \in {getSourceStack(arg, ProjectRoot)} :
       Inspect("getSourceStack", arg, r)

NextStack == SplitStack \/ GetSourceStack

SpecStack == InitStack /\ [][NextStack]_vars

\* --------------------------------------------------------- the code frame
PrecomputedFrame ==
  [t |-> "codeFrame", line |-> 9, column |-> 9,
   relativeFile |-> Str(<<"o">>), absoluteFile |-> Str(<<"/", "o">>),
   frame |-> <<">", "|", "o">>, language |-> Null]

\* the parsed stacks an error may carry: none, or what getSourceStack made
\* of a stack
ParsedStacks ==
  {<<>>} \cup
  {getSourceStack(s, ProjectRoot).parsed :
     s \in {x \in StackInputs : getSourceStack(x, ProjectRoot).t = "sourceStack"}}

InitFrame ==
  /\ sourceMaps \in Resolvers
  /\ sourceContents \in Contents
  /\ err \in {[NewError(<<"E">>, <<>>, Undefined) EXCEPT
                 !.codeFrame = cf, !.parsedStack = ps] :
                cf \in {Undefined, PrecomputedFrame}, ps \in ParsedStacks}
  /\ pre = err
  /\ op = "init"
  /\ arg = Undefined
  /\ ret = Undefined
  /\ contentsCalls = <<>>

GetCodeFrame ==
  \E r \in {getCodeFrame(err)} :
     /\ pre' = err
     /\ op' = "getCodeFrame"
     /\ arg' = Undefined
     /\ ret' = r.ret
     /\ contentsCalls' = r.calls
     /\ UNCHANGED <<err, sourceMaps, sourceContents>>

NextFrame == GetCodeFrame

SpecFrame == InitFrame /\ [][NextFrame]_vars

\* ============================================================== the claims
\* the index of the first line that matches the frame grammar, one past the
\* last line when none does
FirstFrame(lines) ==
  Least({i \in 1..Len(lines) : stackLineRegexTest(lines[i])} \cup {Len(lines) + 1})

MessagesOf(lines) == SubSeq(lines, 1, FirstFrame(lines) - 1)
FramesOf(lines) == SubSeq(lines, FirstFrame(lines), Len(lines))

\* C1: splitStack(s) cuts the lines of s at the first line that matches the
\* frame grammar: the messages are the lines before it, the frames that line
\* and every later one, in order, and together they are all the lines of s.
C1_SplitPartition ==
  op = "splitStack" =>
    LET lines == split(arg.s)
    IN /\ ret[1] = MessagesOf(lines)
       /\ ret[2] = FramesOf(lines)
       /\ Len(ret[1]) + Len(ret[2]) = Len(lines)
       /\ ret[1] \o ret[2] = lines

\* a frame line followed by a line that does not match the grammar
C1_Witness ==
  /\ op = "splitStack"
  /\ Len(ret[2]) = 2
  /\ ~stackLineRegexTest(ret[2][2])
  /\ ret[1] = <<>>

\* C2: normalizeStack is idempotent: the stack after a second application
\* is the stack after the first, from every error the program can hold and
\* in every state that a normalizeStack call has just left.
C2_NormalizeIdempotent ==
  /\ LET once == normalizeStack(err)
     IN once # TypeError =>
          /\ normalizeStack(once) # TypeError
          /\ normalizeStack(once).stack = once.stack
  /\ (op = "normalizeStack" /\ ret = SameError) => normalizeStack(err) = err

\* a normalizeStack call that prepended a multi-line textual form
C2_Witness ==
  /\ op = "normalizeStack"
  /\ ret = SameError
  /\ err.stack # pre.stack
  /\ includes(errToString(err), <<NL>>)

\* the stack of an error as a string: '' when it is missing
StackText(e) == IF IsString(e.stack) THEN e.stack.s ELSE <<>>

\* C3: normalizeStack prepends the textual form and a newline exactly when
\* the first line of the stack does not contain the textual form, leaves the
\* stack unchanged otherwise, and returns the same error object.
C3_PrependsExactlyWhenMissing ==
  (op = "normalizeStack" /\ ~(Truthy(pre.stack) /\ ~IsString(pre.stack))) =>
    /\ ret = SameError
    /\ IF ~includes(split(StackText(pre))[1], errToString(pre))
       THEN err.stack = Str(errToString(pre) \o <<NL>> \o StackText(pre))
       ELSE err.stack = pre.stack

\* C4: replaceStack leaves an error whose stack is falsy as it is; otherwise
\* the stack becomes the textual form followed by the frame lines of
\* newStack without those that hold '__getSpecFrameStack', one per line and
\* in order, and nothing else: the message lines of newStack are not taken.
C4_ReplaceStack ==
  op = "replaceStack" =>
    /\ ret = SameError
    /\ IF ~Truthy(pre.stack) THEN err = pre
       ELSE LET frames == FramesOf(split(arg.s))
                kept == SelectSeq(frames, LAMBDA l : ~includes(l, SpecFrameMarker))
            IN /\ err = [pre EXCEPT !.stack =
                           Str(join(<<errToString(pre)>> \o kept, <<NL>>))]
               /\ Len(split(err.stack.s))
                    = Len(split(errToString(pre))) + Len(kept)

\* a replaceStack call on an error with a stack whose newStack holds a frame
\* line that stays and one of the helper that goes
C4_Witness ==
  /\ op = "replaceStack"
  /\ Truthy(pre.stack)
  /\ split(arg.s) = <<LineFrameG, LineMarkerFrame>>
  /\ err.stack = Str(join(<<errToString(pre), LineFrameG>>, <<NL>>))

\* C5: hasStack is true exactly when the stack is a non-empty string with a
\* line that matches the frame grammar (so that the split has a frame line),
\* is false for a stack of message lines only, and leaves the error alone.
C5_HasStack ==
  op = "hasStack" =>
    /\ err = pre
    /\ (ret = Bool(TRUE)) <=>
         /\ IsString(pre.stack)
         /\ pre.stack.s # <<>>
         /\ \E i \in 1..Len(split(pre.stack.s)) :
              stackLineRegexTest(split(pre.stack.s)[i])
    /\ (IsString(pre.stack) /\ FramesOf(split(pre.stack.s)) = <<>>)
         => ret = Bool(FALSE)

\* hasStack is true of a stack with a message line before its frame line
C5_Witness ==
  /\ op = "hasStack"
  /\ ret = Bool(TRUE)
  /\ MessagesOf(split(pre.stack.s)) # <<>>

\* C6: for an error whose stack is missing, empty or not a string, no
\* inspection raises: getSourceStack returns {}, hasStack returns false and
\* isFromCypress returns false.
C6_MalformedStackDefaults ==
  (~IsString(pre.stack) \/ pre.stack.s = <<>>) =>
    /\ op = "getSourceStack" => ret = EmptyObject
    /\ op = "hasStack" => ret = Bool(FALSE)
    /\ op = "isFromCypress" => ret = Bool(FALSE)

\* the lines the round trip is claimed for: message lines with any leading
\* whitespace, and frame lines '<ws>at fn (file:L:C)'
RoundTripLines == {LineMessage, <<>>, LineFrameF, LineContextEval, LineContextEvalX}

\* C7: with a resolver that maps no position, getSourceStack(stack)
\* .sourceMapped is stack, character for character, for a stack of message
\* lines and frame lines '<ws>at fn (file:L:C)'.
C7_RoundTrip ==
  ( /\ op = "getSourceStack"
    /\ IsString(arg)
    /\ sourceMaps = NoFile
    /\ \A i \in 1..Len(split(arg.s)) : split(arg.s)[i] \in RoundTripLines ) =>
    /\ ret # TypeError
    /\ ret.sourceMapped = arg.s

\* the function name a mapped frame shows
ShownFunction(fn) == IF fn = ContextEval THEN TestRun ELSE fn

\* C8: when the resolver returns a position for a parsed frame line, the
\* entry takes relativeFile and line from the resolver, keeps the generated
\* file as fileUrl, has the resolver's column plus one, and the rebuilt line
\* is '<ws>at <fn> (<file>:<line>:<column + 1>)' with the resolver's values,
\* fn being the generated name with exactly Context.eval shown as Test.run.
C8_MappedFrame ==
  (op = "getSourceStack" /\ IsString(arg) /\ ret # TypeError) =>
    LET lines == split(arg.s)
    IN \A i \in 1..Len(lines) :
         LET generated == parseLine(lines[i])
         IN (generated.ok /\ IsString(generated.file)
             /\ generated.file.s \in DOMAIN sourceMaps) =>
              LET position == sourceMaps[generated.file.s]
                  entry == ret.parsed[i]
              IN /\ entry.relativeFile = Str(position.file)
                 /\ entry.line = position.line
                 /\ entry.fileUrl = generated.file
                 /\ entry.column = position.column + 1
                 /\ entry.function = ShownFunction(generated.function)
                 /\ split(ret.sourceMapped)[i] =
                      leadingWhitespace(lines[i]) \o <<"a", "t", " ">>
                      \o ShownFunction(generated.function) \o <<" ", "(">>
                      \o position.file \o <<":">> \o toDigits(position.line)
                      \o <<":">> \o toDigits(position.column + 1) \o <<")">>

\* a mapped Context.eval frame, shown as Test.run at the resolver's position
C8_Witness ==
  /\ op = "getSourceStack"
  /\ IsString(arg)
  /\ ret # TypeError
  /\ split(arg.s)[1] = LineContextEval
  /\ <<"b">> \in DOMAIN sourceMaps
  /\ ret.parsed[1].function = TestRun
  /\ ret.parsed[1].line = 5

\* C9: when the resolver returns nothing for a parsed frame line,
\* getSourceStack still completes, and the entry of that line has the
\* generated file as relativeFile and as fileUrl, the generated line and the
\* generated function name, not rewritten.
C9_UnresolvedFrame ==
  (op = "getSourceStack" /\ IsString(arg)) =>
    /\ ret # TypeError
    /\ LET lines == split(arg.s)
       IN \A i \in 1..Len(lines) :
            LET generated == parseLine(lines[i])
            IN (generated.ok /\ ~getSourcePosition(generated.file, generated).ok) =>
                 /\ ret.parsed[i].relativeFile = generated.file
                 /\ ret.parsed[i].fileUrl = generated.file
                 /\ ret.parsed[i].line = generated.line
                 /\ ret.parsed[i].function = generated.function

\* C10: getCodeFrame returns a code frame the error already carries without
\* consulting the resolver; otherwise its candidate is the first entry of
\* the parsed stack with a generated file: the result carries that entry's
\* line and column, and is undefined when no entry has a file or the resolver
\* has no source text for the candidate.  The error is not modified.
C10_CodeFrame ==
  op = "getCodeFrame" =>
    /\ err = pre
    /\ IF pre.codeFrame # Undefined
       THEN ret = pre.codeFrame /\ contentsCalls = <<>>
       ELSE LET withFile == {i \in 1..Len(pre.parsedStack) :
                               Truthy(pre.parsedStack[i].fileUrl)}
            IN IF withFile = {} THEN ret = Undefined /\ contentsCalls = <<>>
               ELSE LET candidate == pre.parsedStack[Least(withFile)]
                    IN /\ contentsCalls = <<candidate.fileUrl>>
                       /\ (candidate.fileUrl.s \notin DOMAIN sourceContents
                             => ret = Undefined)
                       /\ (candidate.fileUrl.s \in DOMAIN sourceContents
                             /\ sourceContents[candidate.fileUrl.s].s = <<>>
                             => ret = Undefined)
                       /\ ret # Undefined =>
                            /\ ret.line = candidate.line
                            /\ ret.column = candidate.column

\* a code frame for the second entry: the message entry before it is passed
\* over
C10_Witness ==
  /\ op = "getCodeFrame"
  /\ pre.codeFrame = Undefined
  /\ Len(pre.parsedStack) >= 2
  /\ ~Truthy(pre.parsedStack[1].fileUrl)
  /\ Truthy(pre.parsedStack[2].fileUrl)
  /\ ret # Undefined
  /\ ret.line = pre.parsedStack[2].line

====
